---- MODULE Spec2Model ----
(***************************************************************************)
(* Spades tracker backend: one room, its members, rounds and round        *)
(* entries, and the HTTP handlers that read and write them.  Every        *)
(* handler is a sequence of awaited database operations; one action of    *)
(* this module is one awaited operation together with the synchronous     *)
(* code that follows it up to the next await, so that two requests        *)
(* interleave exactly where the server lets them.                         *)
(***************************************************************************)
EXTENDS Integers, Sequences, FiniteSets, TLC

\* ---- bounds of the model
NUsers == 5
NPlayers == 2
NProcs == 2
MaxMemberRows == 5
MaxRounds == 1
MaxRosterRows == 3
MaxRosterRounds == 2
NBoardMembers == 3

\* ---- program constants
ROOM_MAX_PLAYERS == 4
MIN_CALL_HANDS == 2
MIN_RESULT_HANDS == 0
MAX_HANDS == 13
BLIND_MIN_HANDS == 5

Users == 1..NUsers
Players == 1..NPlayers
Procs == 1..NProcs
MemberIds == 1..MaxMemberRows
RoundIds == 1..MaxRounds

\* a nullable column: <<>> is null, <<v>> is the value v
Null == <<>>
Some(v) == <<v>>
IsNull(x) == x = <<>>
Val(x) == x[1]

\* the bodies the requests of a round carry: a value below and a value above
\* each range, a call, a result below the call and a result above it
CallChoices == {1, 5, 14}
BlindChoices == {Null, Some(TRUE), Some(FALSE)}
ResultChoices == {-1, 3, 14}
VerifyChoices == {Null, Some(6), Some(14)}

VARIABLES leaderId, roomStatus, members, nextMemberId, rounds, entries, pc, req,
          sockets

vars == <<leaderId, roomStatus, members, nextMemberId, rounds, entries, pc, req,
          sockets>>
db == <<leaderId, roomStatus, members, nextMemberId, rounds, entries>>

\* ---- rows
NewMember(id, u) == [id |-> id, userId |-> u, totalPoints |-> 0]

NewRound(n) ==
  [roundNumber |-> n, state |-> "IN_PROGRESS", phase |-> "CALLING",
   startedAt |-> 0, endedAt |-> 0, closedAt |-> 0]

NewEntry(r, m) ==
  [roundId |-> r, memberId |-> m, calledHands |-> 0, blindCall |-> FALSE,
   lockedAt |-> 0, reportedWinningHands |-> Null, verifiedWinningHands |-> Null,
   verifiedById |-> Null, pointsAwarded |-> Null]

\* ---- queries
MemberOfUser(u) == {m \in members : m.userId = u}
MemberById(id) == {m \in members : m.id = id}
EntriesOfRound(r) == {e \in entries : e.roundId = r}
EntryOf(r, m) == {e \in entries : e.roundId = r /\ e.memberId = m}
EntryOfUser(r, u) ==
  {e \in entries : e.roundId = r /\ \E m \in members : m.id = e.memberId /\ m.userId = u}
RoundExists(r) == r \in 1..Len(rounds)
InProgressRounds == {r \in 1..Len(rounds) : rounds[r].state = "IN_PROGRESS"}
LastRoundNumber ==
  IF Len(rounds) = 0 THEN 0
  ELSE CHOOSE n \in {rounds[r].roundNumber : r \in 1..Len(rounds)} :
         \A r \in 1..Len(rounds) : rounds[r].roundNumber <= n

\* ---- request slots
\* pc[p] is the await the request in slot p is suspended at, req[p] what the
\* handler has read so far.  A handler that rejects the request returns before
\* it writes anything: the slot is free again and the database is as it was.
Idle == [op |-> "none"]

Move(p, label, r) ==
  /\ pc' = [pc EXCEPT ![p] = label]
  /\ req' = [req EXCEPT ![p] = r]

\* no HTTP handler touches the channels of socket.io
Goto(p, label, r) ==
  /\ Move(p, label, r)
  /\ UNCHANGED sockets

Finish(p) == Goto(p, "idle", Idle)

\* a handler that answers after its write without the broadcast
CommittedSilently(p) == Goto(p, "idle", Idle)

\* the write is committed; emitRoomUpdate is awaited next
Committed(p) == Goto(p, "emit", Idle)

\* what the handler does with the outcome of its checks
Proceed(p, outcome, label, r) == IF outcome = "ok" THEN Goto(p, label, r) ELSE Finish(p)

\* a request takes the lowest free slot
FreeSlot(p) == pc[p] = "idle" /\ \A q \in Procs : q < p => pc[q] # "idle"

At(p, label) == pc[p] = label

InFlight(op) == Cardinality({q \in Procs : pc[q] # "idle" /\ req[q].op = op})

\* the bound on the rounds the room ever gets
RoundsLeft(n) == Len(rounds) + InFlight("startRound") < n

\* the bound on the rows the RoomMember table ever gets
RowsLeft(n) == nextMemberId + InFlight("join") <= n

\* the HTTP status the handlers send with each outcome
StatusOf(outcome) ==
  CASE outcome = "ok" -> 200
    [] outcome \in {"not_leader", "not_friends"} -> 403
    [] outcome \in {"round_not_found", "entry_not_found", "player_not_found",
                    "friend_not_in_room"} -> 404
    [] outcome = "internal" -> 500
    [] OTHER -> 400

\* ---- the socket of each user: whether it is in the room's channel, and the
\* last room:update and leaderboard:update it was sent
NoSocket == [joined |-> FALSE, got |-> Null]

\* ---- getRoomSnapshot: the members in join order (member ids are given out
\* in join order) and the leaderboard, that list sorted by Array.prototype.sort
\* with the comparator b.totalPoints - a.totalPoints; the sort is stable
RECURSIVE MembersFrom(_)
MembersFrom(ms) ==
  IF ms = {} THEN <<>>
  ELSE LET first == CHOOSE m \in ms : \A n \in ms : m.id <= n.id
       IN <<first>> \o MembersFrom(ms \ {first})

RECURSIVE InsertByPoints(_, _)
InsertByPoints(x, sorted) ==
  IF sorted = <<>> THEN <<x>>
  ELSE IF Head(sorted).totalPoints - x.totalPoints < 0
    THEN <<x>> \o sorted
    ELSE <<Head(sorted)>> \o InsertByPoints(x, Tail(sorted))

RECURSIVE SortByPoints(_, _)
SortByPoints(list, sorted) ==
  IF list = <<>> THEN sorted
  ELSE SortByPoints(Tail(list), InsertByPoints(Head(list), sorted))

\* a snapshot whose leaderboard is the member list as it is
leaderboardUnsorted(list) == list

leaderboard(list) == SortByPoints(list, <<>>)

getRoomSnapshot ==
  [members |-> MembersFrom(members),
   leaderboard |-> leaderboard(MembersFrom(members))]

\* ---- emitRoomUpdate: the snapshot is read and sent to the sockets in the
\* room's channel
Emit(p) ==
  /\ At(p, "emit")
  /\ Move(p, "idle", Idle)
  /\ sockets' = [u \in Users |->
                   IF sockets[u].joined
                     THEN [joined |-> TRUE, got |-> Some(getRoomSnapshot)]
                     ELSE sockets[u]]
  /\ UNCHANGED db

\* getRoomSnapshot or the send throws: emitRoomUpdate catches nothing and is
\* awaited inside the handler's try, so the handler's catch hands the error on
EmitFail(p) ==
  /\ At(p, "emit")
  /\ Goto(p, "error", Idle)
  /\ UNCHANGED db

\* ---- the error middleware answers 500 "Internal server error"
ErrorMiddleware(p) ==
  /\ At(p, "error")
  /\ Finish(p)
  /\ UNCHANGED db

\* ---- POST /api/rooms: the room with its creator as leader and sole member
CreateRoom(u) ==
  /\ leaderId = u
  /\ roomStatus = "LOBBY"
  /\ members = {NewMember(1, u)}
  /\ nextMemberId = 2
  /\ rounds = <<>>
  /\ entries = {}

FirstUser == CHOOSE u \in Players : \A v \in Players : u <= v

Init ==
  /\ CreateRoom(FirstUser)
  /\ pc = [p \in Procs |-> "idle"]
  /\ req = [p \in Procs |-> Idle]
  /\ sockets = [u \in Users |-> NoSocket]

\* ---- room:subscribe: the membership is looked up and, when there is one,
\* the socket joins the room's channel and emitRoomUpdate is awaited
SubscribeCheck(u) == IF MemberOfUser(u) = {} THEN "not_member" ELSE "ok"

Subscribe(p, u) ==
  /\ FreeSlot(p)
  /\ SubscribeCheck(u) = "ok"
  /\ sockets' = [sockets EXCEPT ![u].joined = TRUE]
  /\ Move(p, "emit", Idle)
  /\ UNCHANGED db

\* ---- room:unsubscribe: the socket leaves the room's channel
Unsubscribe(u) ==
  /\ sockets[u].joined
  /\ sockets' = [sockets EXCEPT ![u].joined = FALSE]
  /\ UNCHANGED <<db, pc, req>>

\* ---- joinRoomForUser (POST /api/rooms/join, POST /api/friends/:id/join)
JoinRoomCheck == IF InProgressRounds # {} THEN "round_in_progress" ELSE "ok"

JoinReadRoom(p, u) ==
  /\ FreeSlot(p)
  /\ Proceed(p, JoinRoomCheck, "join_membership", [op |-> "join", actor |-> u])
  /\ UNCHANGED db

\* a handler that counts the members before it looks for the user's membership
JoinReadMembershipRecount(p) ==
  /\ At(p, "join_membership")
  /\ Goto(p, "join_count", req[p])
  /\ UNCHANGED db

\* an existing membership skips the insert and goes on to emitRoomUpdate
JoinReadMembership(p) ==
  /\ At(p, "join_membership")
  /\ IF MemberOfUser(req[p].actor) # {}
       THEN Committed(p)
       ELSE Goto(p, "join_count", req[p])
  /\ UNCHANGED db

\* a count check that lets one more member in
JoinCountCheckOver == IF Cardinality(members) > ROOM_MAX_PLAYERS THEN "room_full" ELSE "ok"

JoinCountCheck == IF Cardinality(members) >= ROOM_MAX_PLAYERS THEN "room_full" ELSE "ok"

JoinCount(p) ==
  /\ At(p, "join_count")
  /\ Proceed(p, JoinCountCheck, "join_create", req[p])
  /\ UNCHANGED db

\* RoomMember_roomId_userId_key: a second row of the same user throws
JoinCreateCheck(u) == IF MemberOfUser(u) # {} THEN "internal" ELSE "ok"

JoinCreate(p) ==
  /\ At(p, "join_create")
  /\ IF JoinCreateCheck(req[p].actor) # "ok"
       THEN /\ Finish(p)
            /\ UNCHANGED db
       ELSE /\ members' = members \cup {NewMember(nextMemberId, req[p].actor)}
            /\ nextMemberId' = nextMemberId + 1
            /\ Committed(p)
            /\ UNCHANGED <<leaderId, roomStatus, rounds, entries>>

\* the answer of joinRoomForUser to user u when no other request runs meanwhile
JoinOutcome(u) ==
  IF JoinRoomCheck # "ok" THEN JoinRoomCheck
  ELSE IF MemberOfUser(u) # {} THEN "ok"
  ELSE JoinCountCheck

\* ---- POST /api/friends/:friendUserId/join: the friend's room, then joinRoomForUser
\* accepted: whether the friend request of the two users is ACCEPTED
JoinFriendCheck(u, f, accepted) ==
  IF f = u THEN "choose_friend" ELSE IF ~accepted THEN "not_friends" ELSE "ok"

JoinViaFriend(p, u, f, accepted) ==
  /\ FreeSlot(p)
  /\ Proceed(p, JoinFriendCheck(u, f, accepted), "friend_membership",
             [op |-> "join", actor |-> u, friend |-> f])
  /\ UNCHANGED db

FriendMembershipCheck(f) == IF MemberOfUser(f) = {} THEN "friend_not_in_room" ELSE "ok"

JoinReadFriendMembership(p) ==
  /\ At(p, "friend_membership")
  /\ Proceed(p, FriendMembershipCheck(req[p].friend), "join_room",
             [op |-> "join", actor |-> req[p].actor])
  /\ UNCHANGED db

JoinFriendReadRoom(p) ==
  /\ At(p, "join_room")
  /\ Proceed(p, JoinRoomCheck, "join_membership", req[p])
  /\ UNCHANGED db

\* ---- DELETE /api/rooms/:roomId/members/:memberId
\* a handler that lets any user kick and transfer
LeaderCheckAnyone(u) == "ok"

LeaderCheck(u) == IF leaderId # u THEN "not_leader" ELSE "ok"

KickReadRoom(p, u, m) ==
  /\ FreeSlot(p)
  /\ Proceed(p, LeaderCheck(u), "kick_target",
             [op |-> "kick", actor |-> u, target |-> m, leaderRead |-> leaderId])
  /\ UNCHANGED db

\* leaderRead is the leaderId of the room as the handler read it
KickTargetCheck(m, leaderRead) ==
  IF MemberById(m) = {} THEN "player_not_found"
  ELSE IF (CHOOSE x \in MemberById(m) : TRUE).userId = leaderRead
    THEN "leader_cannot_be_kicked"
    ELSE "ok"

KickReadTarget(p) ==
  /\ At(p, "kick_target")
  /\ Proceed(p, KickTargetCheck(req[p].target, req[p].leaderRead), "kick_delete", req[p])
  /\ UNCHANGED db

\* a delete that leaves the entries of the member behind
KickDeleteKeepEntries(p) ==
  /\ At(p, "kick_delete")
  /\ IF MemberById(req[p].target) = {}
       THEN /\ Finish(p)
            /\ UNCHANGED db
       ELSE /\ members' = members \ MemberById(req[p].target)
            /\ Committed(p)
            /\ UNCHANGED <<leaderId, roomStatus, nextMemberId, rounds, entries>>

\* RoundEntry_memberId_fkey ON DELETE CASCADE removes the member's entries
KickDelete(p) ==
  /\ At(p, "kick_delete")
  /\ IF MemberById(req[p].target) = {}
       THEN /\ Finish(p)
            /\ UNCHANGED db
       ELSE /\ members' = members \ MemberById(req[p].target)
            /\ entries' = {e \in entries : e.memberId # req[p].target}
            /\ Committed(p)
            /\ UNCHANGED <<leaderId, roomStatus, nextMemberId, rounds>>

\* ---- PATCH /api/rooms/:roomId/leader/:memberId
TransferReadRoom(p, u, m) ==
  /\ FreeSlot(p)
  /\ Proceed(p, LeaderCheck(u), "transfer_target",
             [op |-> "transfer", actor |-> u, target |-> m, leaderRead |-> leaderId])
  /\ UNCHANGED db

\* a handler that transfers the leadership to the leader
TransferTargetCheckAnyMember(m, leaderRead) ==
  IF MemberById(m) = {} THEN "player_not_found" ELSE "ok"

TransferTargetCheck(m, leaderRead) ==
  IF MemberById(m) = {} THEN "player_not_found"
  ELSE IF (CHOOSE x \in MemberById(m) : TRUE).userId = leaderRead
    THEN "already_leader"
    ELSE "ok"

TransferReadTarget(p) ==
  /\ At(p, "transfer_target")
  /\ Proceed(p, TransferTargetCheck(req[p].target, req[p].leaderRead), "transfer_update",
             [op |-> "transfer", actor |-> req[p].actor,
              targetUserId |-> IF MemberById(req[p].target) = {} THEN 0
                               ELSE (CHOOSE x \in MemberById(req[p].target) : TRUE).userId])
  /\ UNCHANGED db

TransferUpdate(p) ==
  /\ At(p, "transfer_update")
  /\ leaderId' = req[p].targetUserId
  /\ Committed(p)
  /\ UNCHANGED <<roomStatus, members, nextMemberId, rounds, entries>>

\* ---- POST /api/rooms/:roomId/rounds
StartRoundCheck(u) ==
  IF leaderId # u THEN "not_leader"
  ELSE IF InProgressRounds # {} THEN "finish_active_round"
  ELSE "ok"

StartRoundReadRoom(p, u) ==
  /\ FreeSlot(p)
  /\ Proceed(p, StartRoundCheck(u), "startround_last",
             [op |-> "startRound", actor |-> u, memberIds |-> {m.id : m \in members}])
  /\ UNCHANGED db

StartRoundReadLast(p) ==
  /\ At(p, "startround_last")
  /\ Goto(p, "startround_tx",
          [op |-> "startRound", actor |-> req[p].actor,
           memberIds |-> req[p].memberIds, roundNumber |-> LastRoundNumber + 1])
  /\ UNCHANGED db

\* a schema without the unique index on the round number
StartRoundTxCheckNoIndex(n, memberIds) ==
  IF \E m \in memberIds : MemberById(m) = {} THEN "internal" ELSE "ok"

\* Round_roomId_roundNumber_key or RoundEntry_memberId_fkey throws
StartRoundTxCheck(n, memberIds) ==
  IF \/ \E r \in 1..Len(rounds) : rounds[r].roundNumber = n
     \/ \E m \in memberIds : MemberById(m) = {}
    THEN "internal"
    ELSE "ok"

\* the $transaction: the round, the room status and the entries, or nothing
StartRoundTx(p) ==
  /\ At(p, "startround_tx")
  /\ IF StartRoundTxCheck(req[p].roundNumber, req[p].memberIds) # "ok"
       THEN /\ Finish(p)
            /\ UNCHANGED db
       ELSE /\ rounds' = Append(rounds, NewRound(req[p].roundNumber))
            /\ roomStatus' = "IN_PROGRESS"
            /\ entries' = entries \cup {NewEntry(Len(rounds) + 1, m) : m \in req[p].memberIds}
            /\ Committed(p)
            /\ UNCHANGED <<leaderId, members, nextMemberId>>

\* a scoring that doubles the penalty of a failed blind call too
computeRoundPointsBlindPenalty(calledHands, verifiedHands, blindCall) ==
  LET basePoints == IF verifiedHands < calledHands
                      THEN calledHands * (-10)
                      ELSE calledHands * 10 + (verifiedHands - calledHands)
  IN IF blindCall THEN basePoints * 2 ELSE basePoints

\* ---- computeRoundPoints
computeRoundPoints(calledHands, verifiedHands, blindCall) ==
  IF verifiedHands < calledHands
    THEN calledHands * (-10)
    ELSE LET basePoints == calledHands * 10 + (verifiedHands - calledHands)
         IN IF blindCall THEN basePoints * 2 ELSE basePoints

\* a call schema without the bounds
roundCallSchemaUnbounded(calledHands) == TRUE

\* ---- zod schemas of the request bodies
roundCallSchema(calledHands) == calledHands >= MIN_CALL_HANDS /\ calledHands <= MAX_HANDS
reportSchema(winningHands) == winningHands >= MIN_RESULT_HANDS /\ winningHands <= MAX_HANDS
verifySchema(verified) ==
  IsNull(verified) \/ (Val(verified) >= MIN_RESULT_HANDS /\ Val(verified) <= MAX_HANDS)

TheEntry(es) == CHOOSE e \in es : TRUE

\* ---- PATCH /api/rounds/:roundId/call
\* blind is the optional blindCall of the body; lock defaults to false
RequestedBlind(entry, blind) == IF IsNull(blind) THEN entry.blindCall ELSE Val(blind)

\* a handler that lets a locked estimate go down
CallCheckAnyValue(u, r, calledHands, blind, lock) ==
  IF ~roundCallSchema(calledHands) THEN "invalid_payload"
  ELSE IF EntryOfUser(r, u) = {} THEN "entry_not_found"
  ELSE IF rounds[r].state # "IN_PROGRESS" THEN "round_closed"
  ELSE IF rounds[r].phase # "CALLING" THEN "calling_ended"
  ELSE IF RequestedBlind(TheEntry(EntryOfUser(r, u)), blind) /\ calledHands < BLIND_MIN_HANDS
    THEN "blind_minimum"
  ELSE IF TheEntry(EntryOfUser(r, u)).lockedAt = 0
    THEN IF ~lock THEN "must_lock" ELSE "ok"
  ELSE "ok"

\* a handler that takes a first estimate that is not locked
CallCheckNoLock(u, r, calledHands, blind, lock) ==
  IF ~roundCallSchema(calledHands) THEN "invalid_payload"
  ELSE IF EntryOfUser(r, u) = {} THEN "entry_not_found"
  ELSE IF rounds[r].state # "IN_PROGRESS" THEN "round_closed"
  ELSE IF rounds[r].phase # "CALLING" THEN "calling_ended"
  ELSE IF RequestedBlind(TheEntry(EntryOfUser(r, u)), blind) /\ calledHands < BLIND_MIN_HANDS
    THEN "blind_minimum"
  ELSE IF TheEntry(EntryOfUser(r, u)).lockedAt = 0 THEN "ok"
  ELSE IF calledHands < TheEntry(EntryOfUser(r, u)).calledHands THEN "cannot_decrease"
  ELSE "ok"

\* a handler without the floor of a blind call
CallCheckNoFloor(u, r, calledHands, blind, lock) ==
  IF ~roundCallSchema(calledHands) THEN "invalid_payload"
  ELSE IF EntryOfUser(r, u) = {} THEN "entry_not_found"
  ELSE IF rounds[r].state # "IN_PROGRESS" THEN "round_closed"
  ELSE IF rounds[r].phase # "CALLING" THEN "calling_ended"
  ELSE IF TheEntry(EntryOfUser(r, u)).lockedAt = 0
    THEN IF ~lock THEN "must_lock" ELSE "ok"
  ELSE IF calledHands < TheEntry(EntryOfUser(r, u)).calledHands THEN "cannot_decrease"
  ELSE "ok"

CallCheck(u, r, calledHands, blind, lock) ==
  IF ~roundCallSchema(calledHands) THEN "invalid_payload"
  ELSE IF EntryOfUser(r, u) = {} THEN "entry_not_found"
  ELSE IF rounds[r].state # "IN_PROGRESS" THEN "round_closed"
  ELSE IF rounds[r].phase # "CALLING" THEN "calling_ended"
  ELSE IF RequestedBlind(TheEntry(EntryOfUser(r, u)), blind) /\ calledHands < BLIND_MIN_HANDS
    THEN "blind_minimum"
  ELSE IF TheEntry(EntryOfUser(r, u)).lockedAt = 0
    THEN IF ~lock THEN "must_lock" ELSE "ok"
  ELSE IF calledHands < TheEntry(EntryOfUser(r, u)).calledHands THEN "cannot_decrease"
  ELSE "ok"

CallRead(p, u, r, calledHands, blind, lock) ==
  /\ FreeSlot(p)
  /\ IF CallCheck(u, r, calledHands, blind, lock) # "ok"
       THEN Finish(p)
       ELSE LET entry == TheEntry(EntryOfUser(r, u)) IN
            Goto(p, "call_write",
                 [op |-> "call", actor |-> u, roundId |-> r, memberId |-> entry.memberId,
                  calledHands |-> calledHands, blindCall |-> RequestedBlind(entry, blind),
                  setLock |-> (entry.lockedAt = 0)])
  /\ UNCHANGED db

\* prisma.roundEntry.update throws when the row is gone
EntryWriteCheck(r, m) == IF EntryOf(r, m) = {} THEN "internal" ELSE "ok"

CallWrite(p) ==
  /\ At(p, "call_write")
  /\ IF EntryWriteCheck(req[p].roundId, req[p].memberId) # "ok"
       THEN /\ Finish(p)
            /\ UNCHANGED db
       ELSE LET e == TheEntry(EntryOf(req[p].roundId, req[p].memberId)) IN
            /\ entries' = (entries \ {e}) \cup
                 {[e EXCEPT !.calledHands = req[p].calledHands,
                            !.blindCall = req[p].blindCall,
                            !.lockedAt = IF req[p].setLock THEN @ + 1 ELSE @]}
            /\ Committed(p)
            /\ UNCHANGED <<leaderId, roomStatus, members, nextMemberId, rounds>>

\* ---- POST /api/rounds/:roundId/start
\* a handler that starts the play whatever the locks
StartPlayCheckNoLocks(u, r) ==
  IF ~RoundExists(r) THEN "round_not_found"
  ELSE IF leaderId # u THEN "not_leader"
  ELSE IF rounds[r].state # "IN_PROGRESS" THEN "round_closed"
  ELSE IF rounds[r].phase # "CALLING" THEN "already_started"
  ELSE "ok"

StartPlayCheck(u, r) ==
  IF ~RoundExists(r) THEN "round_not_found"
  ELSE IF leaderId # u THEN "not_leader"
  ELSE IF rounds[r].state # "IN_PROGRESS" THEN "round_closed"
  ELSE IF rounds[r].phase # "CALLING" THEN "already_started"
  ELSE IF \E e \in EntriesOfRound(r) : e.lockedAt = 0 THEN "missing_calls"
  ELSE "ok"

StartPlayRead(p, u, r) ==
  /\ FreeSlot(p)
  /\ Proceed(p, StartPlayCheck(u, r), "startplay_write",
             [op |-> "startPlay", actor |-> u, roundId |-> r])
  /\ UNCHANGED db

StartPlayWrite(p) ==
  /\ At(p, "startplay_write")
  /\ rounds' = [rounds EXCEPT ![req[p].roundId] =
                  [@ EXCEPT !.phase = "PLAYING", !.startedAt = @ + 1]]
  /\ Committed(p)
  /\ UNCHANGED <<leaderId, roomStatus, members, nextMemberId, entries>>

\* ---- POST /api/rounds/:roundId/end
EndPlayCheck(u, r) ==
  IF ~RoundExists(r) THEN "round_not_found"
  ELSE IF leaderId # u THEN "not_leader"
  ELSE IF rounds[r].state # "IN_PROGRESS" THEN "round_closed"
  ELSE IF rounds[r].phase # "PLAYING" THEN "not_playing"
  ELSE "ok"

EndPlayRead(p, u, r) ==
  /\ FreeSlot(p)
  /\ Proceed(p, EndPlayCheck(u, r), "endplay_write",
             [op |-> "endPlay", actor |-> u, roundId |-> r])
  /\ UNCHANGED db

EndPlayWrite(p) ==
  /\ At(p, "endplay_write")
  /\ rounds' = [rounds EXCEPT ![req[p].roundId] =
                  [@ EXCEPT !.phase = "ENDED", !.endedAt = @ + 1]]
  /\ Committed(p)
  /\ UNCHANGED <<leaderId, roomStatus, members, nextMemberId, entries>>

\* ---- PATCH /api/rounds/:roundId/report
\* a handler that takes a report in any phase
ReportCheckAnyPhase(u, r, winningHands) ==
  IF ~reportSchema(winningHands) THEN "invalid_payload"
  ELSE IF EntryOfUser(r, u) = {} THEN "entry_not_found"
  ELSE IF rounds[r].state # "IN_PROGRESS" THEN "round_closed"
  ELSE "ok"

\* a handler that takes the first report of an entry only
ReportCheckOnce(u, r, winningHands) ==
  IF ~reportSchema(winningHands) THEN "invalid_payload"
  ELSE IF EntryOfUser(r, u) = {} THEN "entry_not_found"
  ELSE IF rounds[r].state # "IN_PROGRESS" THEN "round_closed"
  ELSE IF rounds[r].phase # "ENDED" THEN "not_ended"
  ELSE IF ~IsNull(TheEntry(EntryOfUser(r, u)).reportedWinningHands) THEN "already_reported"
  ELSE "ok"

ReportCheck(u, r, winningHands) ==
  IF ~reportSchema(winningHands) THEN "invalid_payload"
  ELSE IF EntryOfUser(r, u) = {} THEN "entry_not_found"
  ELSE IF rounds[r].state # "IN_PROGRESS" THEN "round_closed"
  ELSE IF rounds[r].phase # "ENDED" THEN "not_ended"
  ELSE "ok"

ReportRead(p, u, r, winningHands) ==
  /\ FreeSlot(p)
  /\ IF ReportCheck(u, r, winningHands) # "ok"
       THEN Finish(p)
       ELSE Goto(p, "report_write",
                 [op |-> "report", actor |-> u, roundId |-> r,
                  memberId |-> TheEntry(EntryOfUser(r, u)).memberId,
                  winningHands |-> winningHands])
  /\ UNCHANGED db

ReportWrite(p) ==
  /\ At(p, "report_write")
  /\ IF EntryWriteCheck(req[p].roundId, req[p].memberId) # "ok"
       THEN /\ Finish(p)
            /\ UNCHANGED db
       ELSE LET e == TheEntry(EntryOf(req[p].roundId, req[p].memberId)) IN
            /\ entries' = (entries \ {e}) \cup
                 {[e EXCEPT !.reportedWinningHands = Some(req[p].winningHands)]}
            /\ Committed(p)
            /\ UNCHANGED <<leaderId, roomStatus, members, nextMemberId, rounds>>

\* ---- PATCH /api/rounds/:roundId/verify/:memberId
\* a handler that verifies in a closed round too
VerifyRoundCheckAnyState(u, r, verified) ==
  IF ~verifySchema(verified) THEN "invalid_payload"
  ELSE IF ~RoundExists(r) THEN "round_not_found"
  ELSE IF leaderId # u THEN "not_leader"
  ELSE IF rounds[r].phase # "ENDED" THEN "not_ended"
  ELSE "ok"

\* verified is the optional verifiedWinningHands of the body
VerifyRoundCheck(u, r, verified) ==
  IF ~verifySchema(verified) THEN "invalid_payload"
  ELSE IF ~RoundExists(r) THEN "round_not_found"
  ELSE IF leaderId # u THEN "not_leader"
  ELSE IF rounds[r].state # "IN_PROGRESS" THEN "round_closed"
  ELSE IF rounds[r].phase # "ENDED" THEN "not_ended"
  ELSE "ok"

VerifyReadRound(p, u, r, m, verified) ==
  /\ FreeSlot(p)
  /\ Proceed(p, VerifyRoundCheck(u, r, verified), "verify_entry",
             [op |-> "verify", actor |-> u, roundId |-> r, memberId |-> m,
              verified |-> verified])
  /\ UNCHANGED db

\* a handler that verifies an entry nobody reported
VerifyEntryCheckUnreported(r, m) ==
  IF EntryOf(r, m) = {} THEN "entry_not_found" ELSE "ok"

VerifyEntryCheck(r, m) ==
  IF EntryOf(r, m) = {} THEN "entry_not_found"
  ELSE IF IsNull(TheEntry(EntryOf(r, m)).reportedWinningHands) THEN "not_reported"
  ELSE "ok"

VerifyReadEntry(p) ==
  /\ At(p, "verify_entry")
  /\ IF VerifyEntryCheck(req[p].roundId, req[p].memberId) # "ok"
       THEN Finish(p)
       ELSE Goto(p, "verify_write",
                 [req[p] EXCEPT !.verified =
                    IF IsNull(@)
                      THEN TheEntry(EntryOf(req[p].roundId, req[p].memberId)).reportedWinningHands
                      ELSE @])
  /\ UNCHANGED db

VerifyWrite(p) ==
  /\ At(p, "verify_write")
  /\ IF EntryWriteCheck(req[p].roundId, req[p].memberId) # "ok"
       THEN /\ Finish(p)
            /\ UNCHANGED db
       ELSE LET e == TheEntry(EntryOf(req[p].roundId, req[p].memberId)) IN
            /\ entries' = (entries \ {e}) \cup
                 {[e EXCEPT !.verifiedWinningHands = req[p].verified,
                            !.verifiedById = Some(req[p].actor)]}
            /\ Committed(p)
            /\ UNCHANGED <<leaderId, roomStatus, members, nextMemberId, rounds>>

\* ---- POST /api/rounds/:roundId/close
\* a handler without the check that every entry is verified
CloseCheckUnverified(u, r) ==
  IF ~RoundExists(r) THEN "round_not_found"
  ELSE IF leaderId # u THEN "not_leader"
  ELSE IF rounds[r].state # "IN_PROGRESS" THEN "round_closed"
  ELSE IF rounds[r].phase # "ENDED" THEN "not_ended"
  ELSE "ok"

\* a handler that closes a round only while it is being played
CloseCheckWhilePlaying(u, r) ==
  IF ~RoundExists(r) THEN "round_not_found"
  ELSE IF leaderId # u THEN "not_leader"
  ELSE IF rounds[r].state # "IN_PROGRESS" THEN "round_closed"
  ELSE IF rounds[r].phase # "PLAYING" THEN "not_ended"
  ELSE IF \E e \in EntriesOfRound(r) : IsNull(e.verifiedWinningHands) THEN "not_verified"
  ELSE "ok"

CloseCheck(u, r) ==
  IF ~RoundExists(r) THEN "round_not_found"
  ELSE IF leaderId # u THEN "not_leader"
  ELSE IF rounds[r].state # "IN_PROGRESS" THEN "round_closed"
  ELSE IF rounds[r].phase # "ENDED" THEN "not_ended"
  ELSE IF \E e \in EntriesOfRound(r) : IsNull(e.verifiedWinningHands) THEN "not_verified"
  ELSE "ok"

\* what the handler keeps of each entry it read
ReadEntry(e) ==
  [memberId |-> e.memberId, calledHands |-> e.calledHands,
   verifiedWinningHands |-> e.verifiedWinningHands, blindCall |-> e.blindCall]

PointsOf(se) ==
  computeRoundPoints(se.calledHands,
                     IF IsNull(se.verifiedWinningHands) THEN 0 ELSE Val(se.verifiedWinningHands),
                     se.blindCall)

CloseRead(p, u, r) ==
  /\ FreeSlot(p)
  /\ Proceed(p, CloseCheck(u, r), "close_tx",
             [op |-> "close", actor |-> u, roundId |-> r,
              entries |-> {ReadEntry(e) : e \in EntriesOfRound(r)}])
  /\ UNCHANGED db

\* an update of the transaction throws when its row is gone
CloseTxCheck(r, read) ==
  IF \E se \in read : EntryOf(r, se.memberId) = {} \/ MemberById(se.memberId) = {}
    THEN "internal"
    ELSE "ok"

\* a close that stops before the entry of the newest member
ScoredEntriesPartial(r, read) ==
  {IF e.roundId = r /\ \E se \in read : se.memberId = e.memberId
                  /\ \E later \in read : later.memberId > e.memberId
     THEN [e EXCEPT !.pointsAwarded =
             Some(PointsOf(CHOOSE se \in read : se.memberId = e.memberId))]
     ELSE e : e \in entries}

ScoredEntries(r, read) ==
  {IF e.roundId = r /\ \E se \in read : se.memberId = e.memberId
     THEN [e EXCEPT !.pointsAwarded =
             Some(PointsOf(CHOOSE se \in read : se.memberId = e.memberId))]
     ELSE e : e \in entries}

IncrementedMembers(read) ==
  {IF \E se \in read : se.memberId = m.id
     THEN [m EXCEPT !.totalPoints = @ + PointsOf(CHOOSE se \in read : se.memberId = m.id)]
     ELSE m : m \in members}

\* the $transaction: every entry scored, every total incremented, the round
\* closed and the room back in the lobby, or nothing
CloseTx(p) ==
  /\ At(p, "close_tx")
  /\ IF CloseTxCheck(req[p].roundId, req[p].entries) # "ok"
       THEN /\ Finish(p)
            /\ UNCHANGED db
       ELSE /\ entries' = ScoredEntries(req[p].roundId, req[p].entries)
            /\ members' = IncrementedMembers(req[p].entries)
            /\ rounds' = [rounds EXCEPT ![req[p].roundId] =
                            [@ EXCEPT !.state = "CLOSED", !.closedAt = @ + 1]]
            /\ roomStatus' = "LOBBY"
            /\ Committed(p)
            /\ UNCHANGED <<leaderId, nextMemberId>>

\* ---- the requests of the rounds of a room: who sends them and the bodies
\* they carry are drawn from the given sets
JoinStep(p, U, rows) ==
  \/ \E u \in U : RowsLeft(rows) /\ JoinReadRoom(p, u)
  \/ JoinReadMembership(p)
  \/ JoinCount(p)
  \/ JoinCreate(p)

StartRoundStep(p, U, n) ==
  \/ \E u \in U : RoundsLeft(n) /\ StartRoundReadRoom(p, u)
  \/ StartRoundReadLast(p)
  \/ StartRoundTx(p)

CallStep(p, U, calls, blinds) ==
  \/ \E u \in U, r \in RoundIds, c \in calls, b \in blinds, l \in BOOLEAN :
       CallRead(p, u, r, c, b, l)
  \/ CallWrite(p)

PlayStep(p, U) ==
  \/ \E u \in U, r \in RoundIds : StartPlayRead(p, u, r)
  \/ StartPlayWrite(p)
  \/ \E u \in U, r \in RoundIds : EndPlayRead(p, u, r)
  \/ EndPlayWrite(p)

ScoreStep(p, U, M, results, verifies) ==
  \/ \E u \in U, r \in RoundIds, w \in results : ReportRead(p, u, r, w)
  \/ ReportWrite(p)
  \/ \E u \in U, r \in RoundIds, m \in M, v \in verifies :
       VerifyReadRound(p, u, r, m, v)
  \/ VerifyReadEntry(p)
  \/ VerifyWrite(p)
  \/ \E u \in U, r \in RoundIds : CloseRead(p, u, r)
  \/ CloseTx(p)

\* ---- one round of a room of players, from the lobby to its close
Next ==
  \E p \in Procs :
    \/ Emit(p)
    \/ JoinStep(p, Players, NPlayers)
    \/ StartRoundStep(p, Players, MaxRounds)
    \/ CallStep(p, Players, CallChoices, BlindChoices)
    \/ PlayStep(p, Players)
    \/ ScoreStep(p, Players, 1..NPlayers, ResultChoices, VerifyChoices)

Spec == Init /\ [][Next]_vars

\* ---- the requests that change who is in the room
KickStep(p, U, M) ==
  \/ \E u \in U, m \in M : KickReadRoom(p, u, m)
  \/ KickReadTarget(p)
  \/ KickDelete(p)

TransferStep(p, U, M) ==
  \/ \E u \in U, m \in M : TransferReadRoom(p, u, m)
  \/ TransferReadTarget(p)
  \/ TransferUpdate(p)

FriendStep(p, U, rows) ==
  \/ \E u \in U, f \in U, a \in BOOLEAN : RowsLeft(rows) /\ JoinViaFriend(p, u, f, a)
  \/ JoinReadFriendMembership(p)
  \/ JoinFriendReadRoom(p)

\* ---- a room that users join, by code or through a friend, and are kicked from
NextRoom ==
  \E p \in Procs :
    \/ Emit(p)
    \/ JoinStep(p, Users, MaxMemberRows)
    \/ FriendStep(p, Users, MaxMemberRows)
    \/ KickStep(p, Users, MemberIds)

SpecRoom == Init /\ [][NextRoom]_vars

\* ---- the players of a room, its leader and the rounds the leader starts
NextRoster ==
  \E p \in Procs :
    \/ Emit(p)
    \/ JoinStep(p, Players, MaxRosterRows)
    \/ KickStep(p, Players, 1..MaxRosterRows)
    \/ TransferStep(p, Players, 1..MaxRosterRows)
    \/ StartRoundStep(p, Players, MaxRosterRounds)

SpecRoster == Init /\ [][NextRoster]_vars

\* ---- the calling phase of a round: the players call, raise and lock while
\* the leader starts and ends the play
CallValues == {1, 3, 5, 6}

NextCall ==
  \E p \in Procs :
    \/ Emit(p)
    \/ JoinStep(p, Players, NPlayers)
    \/ StartRoundStep(p, Players, MaxRounds)
    \/ CallStep(p, Players, CallValues, BlindChoices)
    \/ PlayStep(p, Players)

SpecCall == Init /\ [][NextCall]_vars

\* ---- the same, each player sending the next call when the last one is answered
CallInFlight(u) ==
  \E q \in Procs : pc[q] # "idle" /\ req[q].op = "call" /\ req[q].actor = u

CallStepSeq(p, U, calls, blinds) ==
  \/ \E u \in U, r \in RoundIds, c \in calls, b \in blinds, l \in BOOLEAN :
       ~CallInFlight(u) /\ CallRead(p, u, r, c, b, l)
  \/ CallWrite(p)

NextCallSeq ==
  \E p \in Procs :
    \/ Emit(p)
    \/ JoinStep(p, Players, NPlayers)
    \/ StartRoundStep(p, Players, MaxRounds)
    \/ CallStepSeq(p, Players, CallValues, BlindChoices)
    \/ PlayStep(p, Players)

SpecCallSeq == Init /\ [][NextCallSeq]_vars

\* ---- a round under a leadership that changes hands: every request only the
\* leader may send, sent by every player, with one body each
NextLeader ==
  \E p \in Procs :
    \/ Emit(p)
    \/ JoinStep(p, Players, NPlayers)
    \/ KickStep(p, Players, 1..NPlayers)
    \/ TransferStep(p, Players, 1..NPlayers)
    \/ StartRoundStep(p, Players, MaxRounds)
    \/ CallStep(p, Players, {5}, {Null})
    \/ PlayStep(p, Players)
    \/ ScoreStep(p, Players, 1..NPlayers, {3}, {Null})

SpecLeader == Init /\ [][NextLeader]_vars

\* ---- a room that users join while its leader starts a round
NextJoin ==
  \E p \in Procs :
    \/ Emit(p)
    \/ JoinStep(p, Users, MaxMemberRows)
    \/ StartRoundStep(p, Users, MaxRounds)

SpecJoin == Init /\ [][NextJoin]_vars

\* ---- the scoring of a round: the room of one player whose round has ended
\* with the call, the blind flag and the verified result drawn from all the
\* values the schemas and the blind floor let through, and the closes of it
EndedRound ==
  [roundNumber |-> 1, state |-> "IN_PROGRESS", phase |-> "ENDED",
   startedAt |-> 1, endedAt |-> 1, closedAt |-> 0]

VerifiedEntry(calledHands, verifiedHands, blindCall) ==
  [NewEntry(1, 1) EXCEPT !.calledHands = calledHands, !.blindCall = blindCall,
                         !.lockedAt = 1,
                         !.reportedWinningHands = Some(verifiedHands),
                         !.verifiedWinningHands = Some(verifiedHands),
                         !.verifiedById = Some(FirstUser)]

InitScore ==
  /\ \E calledHands \in MIN_CALL_HANDS..MAX_HANDS,
        verifiedHands \in MIN_RESULT_HANDS..MAX_HANDS, blindCall \in BOOLEAN :
       /\ blindCall => calledHands >= BLIND_MIN_HANDS
       /\ entries = {VerifiedEntry(calledHands, verifiedHands, blindCall)}
  /\ leaderId = FirstUser
  /\ roomStatus = "IN_PROGRESS"
  /\ members = {NewMember(1, FirstUser)}
  /\ nextMemberId = 2
  /\ rounds = <<EndedRound>>
  /\ pc = [p \in Procs |-> "idle"]
  /\ req = [p \in Procs |-> Idle]
  /\ sockets = [u \in Users |-> NoSocket]

NextScore ==
  \E p \in Procs :
    \/ Emit(p)
    \/ CloseRead(p, FirstUser, 1)
    \/ CloseTx(p)

SpecScore == InitScore /\ [][NextScore]_vars

\* ---- the round under a changing leadership, every awaited broadcast
\* resumed once its query has resolved
FairLeader == SpecLeader /\ \A p \in Procs : WF_vars(Emit(p))

\* ---- a round whose broadcasts may throw
NextFault ==
  \E p \in Procs :
    \/ Emit(p)
    \/ EmitFail(p)
    \/ ErrorMiddleware(p)
    \/ StartRoundStep(p, Players, MaxRounds)
    \/ CallStep(p, Players, {5}, {Null})
    \/ PlayStep(p, Players)

SpecFault == Init /\ [][NextFault]_vars

\* ---- a round whose players report more than once, with different values
ReportValues == {3, 4}

NextReport ==
  \E p \in Procs :
    \/ Emit(p)
    \/ JoinStep(p, Players, NPlayers)
    \/ StartRoundStep(p, Players, MaxRounds)
    \/ CallStep(p, Players, {5}, {Null})
    \/ PlayStep(p, Players)
    \/ ScoreStep(p, Players, 1..NPlayers, ReportValues, {Null, Some(6)})

SpecReport == Init /\ [][NextReport]_vars

\* ---- a player alone in a room who plays the first round to its close and
\* starts the next
NextStatus ==
  \E p \in Procs :
    \/ Emit(p)
    \/ StartRoundStep(p, {FirstUser}, MaxRosterRounds)
    \/ CallStep(p, {FirstUser}, {5}, {Null})
    \/ PlayStep(p, {FirstUser})
    \/ ScoreStep(p, {FirstUser}, {1}, {3}, {Null})

SpecStatus == Init /\ [][NextStatus]_vars

\* ---- a round of a room of players, one body for each request
NextRound ==
  \E p \in Procs :
    \/ Emit(p)
    \/ JoinStep(p, Players, NPlayers)
    \/ StartRoundStep(p, Players, MaxRounds)
    \/ CallStep(p, Players, {5}, {Null})
    \/ PlayStep(p, Players)
    \/ ScoreStep(p, Players, 1..NPlayers, {3}, {Null})

SpecRound == Init /\ [][NextRound]_vars

\* a handler that is suspended at an await is resumed when the awaited
\* operation has finished
Resume(p) ==
  \/ Emit(p)
  \/ JoinReadMembership(p) \/ JoinCount(p) \/ JoinCreate(p)
  \/ StartRoundReadLast(p) \/ StartRoundTx(p)
  \/ CallWrite(p)
  \/ StartPlayWrite(p) \/ EndPlayWrite(p)
  \/ ReportWrite(p)
  \/ VerifyReadEntry(p) \/ VerifyWrite(p)
  \/ CloseTx(p)

\* the requests the players and the leader keep sending until they are through
PlayerLocks(u) ==
  \E p \in Procs, r \in RoundIds :
    /\ \E e \in EntryOfUser(r, u) : e.lockedAt = 0
    /\ CallRead(p, u, r, BLIND_MIN_HANDS, Null, TRUE)

PlayerReports(u) ==
  \E p \in Procs, r \in RoundIds :
    /\ \E e \in EntryOfUser(r, u) : IsNull(e.reportedWinningHands)
    /\ ReportRead(p, u, r, 3)

LeaderStartsPlay == \E p \in Procs, r \in RoundIds : StartPlayRead(p, leaderId, r)

LeaderEndsPlay == \E p \in Procs, r \in RoundIds : EndPlayRead(p, leaderId, r)

LeaderVerifies(m) ==
  \E p \in Procs, r \in RoundIds :
    /\ \E e \in EntryOf(r, m) : IsNull(e.verifiedWinningHands)
    /\ VerifyReadRound(p, leaderId, r, m, Null)

LeaderCloses == \E p \in Procs, r \in RoundIds : CloseRead(p, leaderId, r)

FairRound ==
  /\ SpecRound
  /\ \A p \in Procs : WF_vars(Resume(p))
  /\ \A u \in Players : SF_vars(PlayerLocks(u)) /\ SF_vars(PlayerReports(u))
  /\ SF_vars(LeaderStartsPlay)
  /\ SF_vars(LeaderEndsPlay)
  /\ \A m \in 1..NPlayers : SF_vars(LeaderVerifies(m))
  /\ SF_vars(LeaderCloses)

\* ---- the leaderboard of a room of members who have played two rounds, the
\* total of each drawn from what two calls of two can add up to; the sockets
\* subscribe and are sent snapshots
BoardTotals == {-40, 0, 40}

ClosedRound(n) ==
  [roundNumber |-> n, state |-> "CLOSED", phase |-> "ENDED",
   startedAt |-> 1, endedAt |-> 1, closedAt |-> 1]

ClosedEntry(r, m, won) ==
  [NewEntry(r, m) EXCEPT !.calledHands = MIN_CALL_HANDS, !.lockedAt = 1,
                         !.reportedWinningHands = Some(IF won THEN 2 ELSE 0),
                         !.verifiedWinningHands = Some(IF won THEN 2 ELSE 0),
                         !.verifiedById = Some(FirstUser),
                         !.pointsAwarded =
                           Some(computeRoundPoints(MIN_CALL_HANDS, IF won THEN 2 ELSE 0, FALSE))]

InitBoard ==
  /\ \E total \in [1..NBoardMembers -> BoardTotals] :
       /\ members = {[NewMember(m, m) EXCEPT !.totalPoints = total[m]] :
                       m \in 1..NBoardMembers}
       /\ entries = {ClosedEntry(1, m, total[m] = 40) : m \in 1..NBoardMembers}
                       \cup {ClosedEntry(2, m, total[m] >= 0) : m \in 1..NBoardMembers}
  /\ leaderId = FirstUser
  /\ roomStatus = "LOBBY"
  /\ nextMemberId = NBoardMembers + 1
  /\ rounds = <<ClosedRound(1), ClosedRound(2)>>
  /\ pc = [p \in Procs |-> "idle"]
  /\ req = [p \in Procs |-> Idle]
  /\ sockets = [u \in Users |-> NoSocket]

NextBoard ==
  \E p \in Procs :
    \/ Emit(p)
    \/ \E u \in 1..NBoardMembers : Subscribe(p, u)
    \/ \E u \in 1..NBoardMembers : Unsubscribe(u)

SpecBoard == InitBoard /\ [][NextBoard]_vars

\* ---- a room whose members subscribe, and are joined by and kicked from
NextSocket ==
  \E p \in Procs :
    \/ Emit(p)
    \/ \E u \in Players : Subscribe(p, u)
    \/ \E u \in Players : Unsubscribe(u)
    \/ JoinStep(p, Players, NPlayers)
    \/ KickStep(p, Players, 1..NPlayers)

SpecSocket == Init /\ [][NextSocket]_vars

\* ======================= properties =======================
PhaseRank(ph) == CASE ph = "CALLING" -> 0 [] ph = "PLAYING" -> 1 [] ph = "ENDED" -> 2

\* the commit of the close transaction of slot p, and of any slot
CloseCommits(p) == pc[p] = "close_tx" /\ pc'[p] = "emit"

RECURSIVE SumAwarded(_)
SumAwarded(es) ==
  IF es = {} THEN 0
  ELSE LET e == CHOOSE x \in es : TRUE
       IN (IF IsNull(e.pointsAwarded) THEN 0 ELSE Val(e.pointsAwarded)) + SumAwarded(es \ {e})

\* C1: of two close requests on the same round only one takes effect: the
\* transaction of a close commits only on a round that is still IN_PROGRESS, so
\* the round is closed once and every total is incremented once.
C1_CloseTakesEffectOnce ==
  [][\A p \in Procs : CloseCommits(p) => rounds[req[p].roundId].state = "IN_PROGRESS"]_vars

\* C2: close is all or nothing.  In every state a CLOSED round has points on
\* every entry and an IN_PROGRESS round on none; and a step that changes any
\* points-awarded, any total or any round's state closes one round, leaves the
\* room in the LOBBY, and gives every entry of that round its points and the
\* entry's member exactly those points more.
C2_Scored(r) ==
  /\ rounds[r].state = "CLOSED" => \A e \in EntriesOfRound(r) : ~IsNull(e.pointsAwarded)
  /\ rounds[r].state = "IN_PROGRESS" => \A e \in EntriesOfRound(r) : IsNull(e.pointsAwarded)

C2_Touched ==
  \/ \E e \in entries, f \in entries' :
       e.roundId = f.roundId /\ e.memberId = f.memberId /\ e.pointsAwarded # f.pointsAwarded
  \/ \E m \in members, n \in members' : m.id = n.id /\ m.totalPoints # n.totalPoints
  \/ \E r \in 1..Len(rounds) : rounds'[r].state # rounds[r].state

C2_AllApplied ==
  \E r \in 1..Len(rounds) :
    /\ rounds'[r].state = "CLOSED"
    /\ roomStatus' = "LOBBY"
    /\ {e.memberId : e \in EntriesOfRound(r)'} = {e.memberId : e \in EntriesOfRound(r)}
    /\ \A f \in EntriesOfRound(r)' :
         /\ ~IsNull(f.pointsAwarded)
         /\ \E m \in members, n \in members' :
              /\ m.id = f.memberId /\ n.id = f.memberId
              /\ n.totalPoints = m.totalPoints + Val(f.pointsAwarded)
    /\ \A m \in members, n \in members' :
         (m.id = n.id /\ m.totalPoints # n.totalPoints) =>
           \E f \in EntriesOfRound(r)' : f.memberId = m.id

C2_CloseAtomic ==
  /\ [](\A r \in 1..Len(rounds) : C2_Scored(r))
  /\ [][C2_Touched => C2_AllApplied]_vars

C2_Witness ==
  \E r \in 1..Len(rounds) :
    /\ rounds[r].state = "CLOSED"
    /\ Cardinality(EntriesOfRound(r)) >= 2
    /\ \A e \in EntriesOfRound(r) :
         ~IsNull(e.pointsAwarded) /\ \E m \in members : m.id = e.memberId /\ m.totalPoints # 0

\* C3: the phase of a round only moves forward, CALLING to PLAYING to ENDED.
C3_PhaseForward ==
  [][\A r \in 1..Len(rounds) :
       PhaseRank(rounds[r].phase) <= PhaseRank(rounds'[r].phase)]_vars

\* C4: a CLOSED round has phase ENDED, and a CLOSED round stays CLOSED.
C4_ClosedFromEnded ==
  /\ [](\A r \in 1..Len(rounds) : rounds[r].state = "CLOSED" => rounds[r].phase = "ENDED")
  /\ [][\A r \in 1..Len(rounds) :
          rounds[r].state = "CLOSED" => rounds'[r].state = "CLOSED"]_vars

\* C5: a room has at most one round that is IN_PROGRESS.
C5_OneRoundInProgress == Cardinality(InProgressRounds) <= 1

\* C6: a room has at most ROOM_MAX_PLAYERS members.
C6_Capacity == Cardinality(members) <= ROOM_MAX_PLAYERS

\* C7: the leader of the room is one of its members.
C7_LeaderIsMember == MemberOfUser(leaderId) # {}

\* C8: close goes on to its transaction only from a state in which the round is
\* IN_PROGRESS, its phase ENDED and every entry verified; when the leader asks
\* for the close of a round for which one of these fails, the handler answers
\* 400 with the matching message; and a round's state, an entry's points or a
\* total change only in the transaction of a close that passed these checks.
C8_Closable(r) ==
  /\ RoundExists(r)
  /\ rounds[r].state = "IN_PROGRESS"
  /\ rounds[r].phase = "ENDED"
  /\ \A e \in EntriesOfRound(r) : ~IsNull(e.verifiedWinningHands)

C8_Rejected ==
  \A u \in Players, r \in RoundIds :
    (RoundExists(r) /\ leaderId = u /\ ~C8_Closable(r)) =>
      /\ CloseCheck(u, r) \in {"round_closed", "not_ended", "not_verified"}
      /\ StatusOf(CloseCheck(u, r)) = 400
      /\ (CloseCheck(u, r) = "not_verified") =
           (rounds[r].state = "IN_PROGRESS" /\ rounds[r].phase = "ENDED")

C8_ClosePrecondition ==
  /\ []C8_Rejected
  /\ [][/\ \A p \in Procs :
             (pc[p] = "idle" /\ pc'[p] = "close_tx") =>
               (C8_Closable(req'[p].roundId) /\ db' = db)
        /\ C2_Touched => \E p \in Procs : CloseCommits(p)]_vars

C8_Witness ==
  \E p \in Procs :
    /\ pc[p] = "close_tx"
    /\ Cardinality(req[p].entries) >= 2
    /\ C8_Closable(req[p].roundId)

\* C9: when the transaction of a close has committed, every entry of the round
\* holds the points computeRoundPoints gives for the called hands, verified
\* hands and blind flag the entry holds, the entry's member has exactly those
\* points more than before, the round is CLOSED and the room in the LOBBY.
C9_CloseScores ==
  [][\A p \in Procs :
       CloseCommits(p) =>
         /\ rounds'[req[p].roundId].state = "CLOSED"
         /\ roomStatus' = "LOBBY"
         /\ \A f \in {e \in entries' : e.roundId = req[p].roundId} :
              /\ ~IsNull(f.pointsAwarded)
              /\ ~IsNull(f.verifiedWinningHands)
              /\ Val(f.pointsAwarded) =
                   computeRoundPoints(f.calledHands, Val(f.verifiedWinningHands), f.blindCall)
              /\ \E m \in members, n \in members' :
                   /\ m.id = f.memberId /\ n.id = f.memberId
                   /\ n.totalPoints = m.totalPoints + Val(f.pointsAwarded)]_vars

\* C10: the total of every member is the sum of the points awarded to the
\* member's entries, and a total changes only in the transaction of a close.
C10_TotalIsSumOfAwards ==
  /\ [](\A m \in members :
          m.totalPoints = SumAwarded({e \in entries : e.memberId = m.id}))
  /\ [][(\E m \in members, n \in members' : m.id = n.id /\ m.totalPoints # n.totalPoints)
          => \E p \in Procs : CloseCommits(p)]_vars
\* the commit of the write of a call by slot p, and the entry it writes
CallCommits(p) == pc[p] = "call_write" /\ pc'[p] = "emit"

SameEntry(e, f) == e.roundId = f.roundId /\ e.memberId = f.memberId

\* a call of user u on round r that passes every check before the ones on the
\* lock: the body is valid, u has an entry, the round takes calls and a blind
\* call is at least BLIND_MIN_HANDS
CallTaken(u, r, c, b) ==
  /\ roundCallSchema(c)
  /\ EntryOfUser(r, u) # {}
  /\ rounds[r].state = "IN_PROGRESS"
  /\ rounds[r].phase = "CALLING"
  /\ ~(RequestedBlind(TheEntry(EntryOfUser(r, u)), b) /\ c < BLIND_MIN_HANDS)

\* C11: on a locked entry a call with at least the stored called-hands is
\* accepted and stored, without a new lock timestamp, and a call with less is
\* answered 400 "cannot be decreased"; when the calls of a player come one
\* after the other, no step lowers the called-hands of a locked entry.
C11_Answer ==
  \A u \in Players, r \in RoundIds, c \in CallValues, b \in BlindChoices, l \in BOOLEAN :
    (CallTaken(u, r, c, b) /\ TheEntry(EntryOfUser(r, u)).lockedAt # 0) =>
      IF c >= TheEntry(EntryOfUser(r, u)).calledHands
        THEN CallCheck(u, r, c, b, l) = "ok"
        ELSE /\ CallCheck(u, r, c, b, l) = "cannot_decrease"
             /\ StatusOf(CallCheck(u, r, c, b, l)) = 400

C11_LockedCallMonotone ==
  /\ []C11_Answer
  /\ [][/\ \A p \in Procs :
             (CallCommits(p) /\ ~req[p].setLock) =>
               \E e \in entries, f \in entries' :
                 /\ SameEntry(e, f)
                 /\ e.roundId = req[p].roundId /\ e.memberId = req[p].memberId
                 /\ f.calledHands = req[p].calledHands
                 /\ f.blindCall = req[p].blindCall
                 /\ f.lockedAt = e.lockedAt
        /\ \A e \in entries, f \in entries' :
             (SameEntry(e, f) /\ e.lockedAt # 0) => f.calledHands >= e.calledHands]_vars

C11_Witness ==
  \E p \in Procs :
    /\ pc[p] = "call_write"
    /\ ~req[p].setLock
    /\ \E e \in EntryOf(req[p].roundId, req[p].memberId) :
         e.lockedAt # 0 /\ req[p].calledHands > e.calledHands

\* C12: also when the calls of a player are interleaved, no step lowers the
\* called-hands of a locked entry.
C12_NoLostUpdate ==
  [][\A e \in entries, f \in entries' :
       (SameEntry(e, f) /\ e.lockedAt # 0) => f.calledHands >= e.calledHands]_vars

\* C13: on an entry that is not locked a call without lock is answered 400
\* "must be locked" and one with lock is accepted; the write of an accepted
\* first call sets the called-hands, the blind flag and the lock; and an entry
\* that is not locked still has its initial called-hands and blind flag.
C13_Answer ==
  \A u \in Players, r \in RoundIds, c \in CallValues, b \in BlindChoices :
    (CallTaken(u, r, c, b) /\ TheEntry(EntryOfUser(r, u)).lockedAt = 0) =>
      /\ CallCheck(u, r, c, b, FALSE) = "must_lock"
      /\ StatusOf(CallCheck(u, r, c, b, FALSE)) = 400
      /\ CallCheck(u, r, c, b, TRUE) = "ok"

C13_Unlocked ==
  \A e \in entries : e.lockedAt = 0 => (e.calledHands = 0 /\ ~e.blindCall)

C13_FirstCallLocks ==
  /\ [](C13_Answer /\ C13_Unlocked)
  /\ [][\A p \in Procs :
          (CallCommits(p) /\ req[p].setLock) =>
            \E f \in entries' :
              /\ f.roundId = req[p].roundId /\ f.memberId = req[p].memberId
              /\ f.calledHands = req[p].calledHands
              /\ f.blindCall = req[p].blindCall
              /\ f.lockedAt # 0]_vars

C13_Witness ==
  \E p \in Procs :
    /\ pc[p] = "call_write"
    /\ req[p].setLock /\ req[p].blindCall
    /\ \E e \in EntryOf(req[p].roundId, req[p].memberId) : e.lockedAt = 0

\* C14: a call whose blind flag, given or stored, is true and whose
\* called-hands are below BLIND_MIN_HANDS is answered 400 "blind call must be
\* at least 5", and every entry with the blind flag has at least
\* BLIND_MIN_HANDS called-hands.
C14_Answer ==
  \A u \in Players, r \in RoundIds, c \in CallValues, b \in BlindChoices, l \in BOOLEAN :
    ( /\ roundCallSchema(c) /\ EntryOfUser(r, u) # {}
      /\ rounds[r].state = "IN_PROGRESS" /\ rounds[r].phase = "CALLING"
      /\ RequestedBlind(TheEntry(EntryOfUser(r, u)), b) /\ c < BLIND_MIN_HANDS ) =>
      /\ CallCheck(u, r, c, b, l) = "blind_minimum"
      /\ StatusOf(CallCheck(u, r, c, b, l)) = 400

C14_BlindFloor ==
  /\ C14_Answer
  /\ \A e \in entries : e.blindCall => e.calledHands >= BLIND_MIN_HANDS

\* an entry locked blind whose round still takes calls: a call of 3 that
\* omits the flag is refused on the stored one
C14_Witness ==
  \E e \in entries :
    /\ e.blindCall /\ e.lockedAt # 0
    /\ rounds[e.roundId].phase = "CALLING"
    /\ \E u \in Players :
         /\ EntryOfUser(e.roundId, u) = {e}
         /\ CallCheck(u, e.roundId, 3, Null, TRUE) = "blind_minimum"

\* C15: the called-hands and the blind flag of an entry do not change in a
\* step taken while the round's phase is PLAYING or ENDED or its state CLOSED.
C15_CallsFrozenAfterCalling ==
  [][\A e \in entries, f \in entries' :
       (SameEntry(e, f) /\ (rounds[e.roundId].phase # "CALLING"
                            \/ rounds[e.roundId].state # "IN_PROGRESS")) =>
         (f.calledHands = e.calledHands /\ f.blindCall = e.blindCall)]_vars

\* C16: the leader's startPlay on a round in its calling phase with an entry
\* that is not locked is answered 400 and goes no further; a startPlay goes on
\* to its write only from a state in which every entry is locked; and every
\* entry of a round in phase PLAYING or ENDED is locked.
C16_Answer ==
  \A u \in Players, r \in RoundIds :
    ( /\ RoundExists(r) /\ leaderId = u
      /\ rounds[r].state = "IN_PROGRESS" /\ rounds[r].phase = "CALLING"
      /\ \E e \in EntriesOfRound(r) : e.lockedAt = 0 ) =>
      /\ StartPlayCheck(u, r) = "missing_calls"
      /\ StatusOf(StartPlayCheck(u, r)) = 400

C16_Locked ==
  \A r \in 1..Len(rounds) :
    rounds[r].phase \in {"PLAYING", "ENDED"} => \A e \in EntriesOfRound(r) : e.lockedAt # 0

C16_PlayNeedsLocks ==
  /\ [](C16_Answer /\ C16_Locked)
  /\ [][\A p \in Procs :
          (pc[p] = "idle" /\ pc'[p] = "startplay_write") =>
            /\ \A e \in EntriesOfRound(req'[p].roundId) : e.lockedAt # 0
            /\ db' = db]_vars

C16_Witness ==
  \E r \in 1..Len(rounds) :
    /\ rounds[r].phase = "PLAYING"
    /\ Cardinality(EntriesOfRound(r)) >= 2
    /\ \A e \in EntriesOfRound(r) : e.lockedAt # 0
\* C17: a report on a round in phase CALLING or PLAYING is answered 400; a
\* report goes on to its write only from a state in which the round is
\* IN_PROGRESS and ENDED; only the write of a report changes a reported value;
\* and no entry of a round that has not been ended has a reported value.
C17_Answer ==
  \A u \in Players, r \in RoundIds, w \in ResultChoices :
    ( /\ reportSchema(w) /\ EntryOfUser(r, u) # {}
      /\ rounds[r].state = "IN_PROGRESS" /\ rounds[r].phase \in {"CALLING", "PLAYING"} ) =>
      /\ ReportCheck(u, r, w) = "not_ended"
      /\ StatusOf(ReportCheck(u, r, w)) = 400

C17_NotYetEnded ==
  \A r \in 1..Len(rounds) :
    rounds[r].endedAt = 0 => \A e \in EntriesOfRound(r) : IsNull(e.reportedWinningHands)

C17_ReportAfterEnd ==
  /\ [](C17_Answer /\ C17_NotYetEnded)
  /\ [][/\ \A p \in Procs :
             (pc[p] = "idle" /\ pc'[p] = "report_write") =>
               /\ rounds[req'[p].roundId].state = "IN_PROGRESS"
               /\ rounds[req'[p].roundId].phase = "ENDED"
               /\ db' = db
        /\ (\E e \in entries, f \in entries' :
              SameEntry(e, f) /\ f.reportedWinningHands # e.reportedWinningHands)
             => \E p \in Procs : pc[p] = "report_write" /\ pc'[p] = "emit"]_vars

C17_Witness ==
  \E p \in Procs :
    /\ pc[p] = "report_write"
    /\ rounds[req[p].roundId].phase = "ENDED"
    /\ Cardinality(EntriesOfRound(req[p].roundId)) >= 2

\* C18: the leader's verify on a round that is not ENDED, or of an entry with
\* no reported value, is answered 400; a verify goes on to its write only
\* after it read the round ENDED and the entry reported, carrying the given
\* value or, when none is given, the reported value it read; its write stores
\* that value and the actor as verifier; only that write changes a verified
\* value; and every entry with a verified value has a reported value.
C18_Answer ==
  \A u \in Players, r \in RoundIds :
    (RoundExists(r) /\ leaderId = u /\ rounds[r].state = "IN_PROGRESS") =>
      /\ \A v \in VerifyChoices :
           (verifySchema(v) /\ rounds[r].phase # "ENDED") =>
             /\ VerifyRoundCheck(u, r, v) = "not_ended"
             /\ StatusOf(VerifyRoundCheck(u, r, v)) = 400
      /\ \A e \in EntriesOfRound(r) :
           IsNull(e.reportedWinningHands) =>
             /\ VerifyEntryCheck(r, e.memberId) = "not_reported"
             /\ StatusOf(VerifyEntryCheck(r, e.memberId)) = 400

C18_VerifiedWasReported ==
  \A e \in entries : ~IsNull(e.verifiedWinningHands) => ~IsNull(e.reportedWinningHands)

C18_VerifyAfterReport ==
  /\ [](C18_Answer /\ C18_VerifiedWasReported)
  /\ [][/\ \A p \in Procs :
             /\ (pc[p] = "idle" /\ pc'[p] = "verify_entry") =>
                  /\ rounds[req'[p].roundId].state = "IN_PROGRESS"
                  /\ rounds[req'[p].roundId].phase = "ENDED"
                  /\ req'[p].actor = leaderId
                  /\ db' = db
             /\ (pc[p] = "verify_entry" /\ pc'[p] = "verify_write") =>
                  /\ \E e \in EntryOf(req[p].roundId, req[p].memberId) :
                       /\ ~IsNull(e.reportedWinningHands)
                       /\ req'[p].verified =
                            IF IsNull(req[p].verified) THEN e.reportedWinningHands
                                                       ELSE req[p].verified
                  /\ db' = db
             /\ (pc[p] = "verify_write" /\ pc'[p] = "emit") =>
                  \E f \in entries' :
                    /\ f.roundId = req[p].roundId /\ f.memberId = req[p].memberId
                    /\ f.verifiedWinningHands = req[p].verified
                    /\ ~IsNull(f.verifiedWinningHands)
                    /\ f.verifiedById = Some(req[p].actor)
        /\ (\E e \in entries, f \in entries' :
              SameEntry(e, f) /\ f.verifiedWinningHands # e.verifiedWinningHands)
             => \E p \in Procs : pc[p] = "verify_write" /\ pc'[p] = "emit"]_vars

\* the reported 3 of a member other than the leader stored as verified: the
\* bodies carry no verified 3, so the value is the default
C18_Witness ==
  \E e \in entries :
    /\ e.reportedWinningHands = Some(3)
    /\ e.verifiedWinningHands = Some(3)
    /\ e.verifiedById = Some(leaderId)
    /\ \E m \in members : m.id = e.memberId /\ m.userId # leaderId

\* C20: when the room has ROOM_MAX_PLAYERS members or more, the join of a user
\* who is not a member is answered 400 "room full" at the count and writes
\* nothing; a join goes on to its insert only when it counted fewer.
C20_Answer ==
  Cardinality(members) >= ROOM_MAX_PLAYERS =>
    (JoinCountCheck = "room_full" /\ StatusOf(JoinCountCheck) = 400)

C20_FullRoomRefuses ==
  /\ []C20_Answer
  /\ [][\A p \in Procs :
          (pc[p] = "join_count" /\ pc'[p] # "join_count") =>
            /\ db' = db
            /\ IF Cardinality(members) >= ROOM_MAX_PLAYERS
                 THEN pc'[p] = "idle"
                 ELSE pc'[p] = "join_create"]_vars

C20_Witness ==
  \E p \in Procs :
    /\ pc[p] = "join_count"
    /\ Cardinality(members) = ROOM_MAX_PLAYERS
    /\ MemberOfUser(req[p].actor) = {}
\* C19: startRound, startPlay, endPlay, verify, close, kick and transfer sent
\* by a user who is not the leader of the room are answered 403, whatever the
\* phase of the round; and a request of one of these kinds gets past its first
\* read only when its sender is the leader, in a step that writes nothing.
LeaderOps == {"startRound", "startPlay", "endPlay", "verify", "close", "kick", "transfer"}

C19_Answer ==
  \A u \in Players :
    leaderId # u =>
      /\ StatusOf("not_leader") = 403
      /\ StartRoundCheck(u) = "not_leader"
      /\ LeaderCheck(u) = "not_leader"
      /\ \A r \in 1..Len(rounds) :
           /\ StartPlayCheck(u, r) = "not_leader"
           /\ EndPlayCheck(u, r) = "not_leader"
           /\ CloseCheck(u, r) = "not_leader"
           /\ \A v \in VerifyChoices :
                verifySchema(v) => VerifyRoundCheck(u, r, v) = "not_leader"

C19_LeaderOnly ==
  /\ []C19_Answer
  /\ [][\A p \in Procs :
          (pc[p] = "idle" /\ pc'[p] # "idle" /\ req'[p].op \in LeaderOps) =>
            (req'[p].actor = leaderId /\ db' = db)]_vars

\* a room whose leadership has passed to another member, who is now at the
\* close of an ended round: the first leader's requests are the refused ones
C19_Witness ==
  \E p \in Procs, r \in 1..Len(rounds) :
    /\ leaderId # FirstUser
    /\ MemberOfUser(FirstUser) # {}
    /\ rounds[r].phase = "ENDED"
    /\ pc[p] = "close_tx" /\ req[p].actor = leaderId
    /\ CloseCheck(FirstUser, r) = "not_leader"

\* C21 as stated: joinRoom answers success to a member in every state of the room.
C21_MemberJoinSucceeds ==
  \A u \in Users : MemberOfUser(u) # {} => JoinOutcome(u) = "ok"

\* C21: in every state in which the room has no IN_PROGRESS round, joinRoom
\* answers success to a member, full room included; and the join of a member
\* that got past the read of the room ends in success at the read of the
\* membership, and neither step writes anything.
C21_Answer ==
  \A u \in Users :
    (MemberOfUser(u) # {} /\ InProgressRounds = {}) =>
      (JoinOutcome(u) = "ok" /\ StatusOf(JoinOutcome(u)) = 200)

C21_MemberJoinIsNoOp ==
  /\ []C21_Answer
  /\ [][\A p \in Procs :
          /\ (pc[p] = "idle" /\ pc'[p] = "join_membership") =>
               (InProgressRounds = {} /\ db' = db)
          /\ (pc[p] = "join_membership" /\ pc'[p] # "join_membership"
                /\ MemberOfUser(req[p].actor) # {}) =>
               (pc'[p] = "emit" /\ db' = db)]_vars

C21_Witness ==
  \E p \in Procs :
    /\ pc[p] = "join_membership"
    /\ MemberOfUser(req[p].actor) # {}
    /\ Cardinality(members) = ROOM_MAX_PLAYERS

\* C22: joinRoom is answered 400 "round in progress" when the room has an
\* IN_PROGRESS round, and no step adds a member to a room that has one.
C22_NoJoinDuringRound ==
  /\ [](InProgressRounds # {} =>
          \A u \in Users : JoinOutcome(u) = "round_in_progress"
                           /\ StatusOf(JoinOutcome(u)) = 400)
  /\ [][InProgressRounds # {} =>
          \A n \in members' : \E m \in members : m.id = n.id]_vars

\* the commit of the transaction of a startRound by slot p
StartRoundCommits(p) == pc[p] = "startround_tx" /\ pc'[p] = "emit"

\* C23: the rounds of a room, in the order of their creation, are numbered 1,
\* 2, 3, ...: the numbers are pairwise distinct and grow with the creation, and
\* the round a startRound creates gets the largest number there is plus one.
C23_Numbered == \A r \in 1..Len(rounds) : rounds[r].roundNumber = r

C23_RoundNumbers ==
  /\ []C23_Numbered
  /\ [][\A p \in Procs :
          StartRoundCommits(p) =>
            /\ Len(rounds') = Len(rounds) + 1
            /\ rounds'[Len(rounds')].roundNumber = LastRoundNumber + 1
            /\ \A r \in 1..Len(rounds) :
                 /\ rounds'[r].roundNumber = rounds[r].roundNumber
                 /\ rounds'[r].roundNumber < rounds'[Len(rounds')].roundNumber]_vars

\* two rounds, the second created by a request that read the first
C23_Witness ==
  /\ Len(rounds) = 2
  /\ rounds[1].roundNumber = 1 /\ rounds[2].roundNumber = 2

\* C24: the commit of a startRound adds, in one step, a round IN_PROGRESS in
\* phase CALLING with exactly one entry for each member the room has at that
\* step, every entry unlocked with no reported, verified or awarded value, and
\* sets the room status to IN_PROGRESS.
C24_StartRoundCreates ==
  [][\A p \in Procs :
       StartRoundCommits(p) =>
         /\ Len(rounds') = Len(rounds) + 1
         /\ rounds'[Len(rounds')].state = "IN_PROGRESS"
         /\ rounds'[Len(rounds')].phase = "CALLING"
         /\ roomStatus' = "IN_PROGRESS"
         /\ {e \in entries' : e.roundId = Len(rounds')} =
              {NewEntry(Len(rounds'), m.id) : m \in members}
         /\ \A e \in entries' :
              e.roundId = Len(rounds') =>
                /\ e.lockedAt = 0
                /\ IsNull(e.reportedWinningHands)
                /\ IsNull(e.verifiedWinningHands)
                /\ IsNull(e.pointsAwarded)]_vars

\* C25: the leader's kick of the leader's own membership is answered 400 and
\* the kick of another member is accepted; a kick goes on to its delete only
\* after it read a target that is not the leader it read; the delete removes
\* the target's membership and every entry of the target, in closed rounds
\* too, and nothing else; the deleted membership is never the sender's own;
\* and a membership disappears only in such a delete.
C25_Answer ==
  \A m \in members :
    /\ m.userId = leaderId =>
         /\ KickTargetCheck(m.id, leaderId) = "leader_cannot_be_kicked"
         /\ StatusOf(KickTargetCheck(m.id, leaderId)) = 400
    /\ m.userId # leaderId => KickTargetCheck(m.id, leaderId) = "ok"

C25_KickRemovesMember ==
  /\ []C25_Answer
  /\ [][/\ \A p \in Procs :
             /\ (pc[p] = "kick_target" /\ pc'[p] # "kick_target") =>
                  /\ db' = db
                  /\ pc'[p] = "kick_delete" =>
                       \E m \in MemberById(req[p].target) : m.userId # req[p].leaderRead
             /\ (pc[p] = "kick_delete" /\ pc'[p] = "emit") =>
                  /\ MemberById(req[p].target) # {}
                  /\ \A m \in MemberById(req[p].target) : m.userId # req[p].actor
                  /\ members' = members \ MemberById(req[p].target)
                  /\ entries' = {e \in entries : e.memberId # req[p].target}
                  /\ UNCHANGED <<leaderId, roomStatus, nextMemberId, rounds>>
        /\ (\E m \in members : \A n \in members' : n.id # m.id) =>
             \E p \in Procs : pc[p] = "kick_delete" /\ pc'[p] = "emit"]_vars

C25_Witness ==
  \E p \in Procs :
    /\ pc[p] = "kick_delete"
    /\ \E e \in entries :
         e.memberId = req[p].target /\ rounds[e.roundId].state = "CLOSED"
    /\ \E e \in entries : e.memberId # req[p].target

\* C26: the leader's transfer to a member who is not the leader is accepted,
\* and one to the leader's own membership or to an id that is no membership of
\* the room is answered 400 or 404; the update of an accepted transfer makes
\* the user of the target it read the leader and changes nothing else; the
\* sender is not the leader afterwards; and the leader changes in no other step.
C26_Answer ==
  /\ \A m \in members :
       /\ m.userId # leaderId => TransferTargetCheck(m.id, leaderId) = "ok"
       /\ m.userId = leaderId =>
            /\ TransferTargetCheck(m.id, leaderId) = "already_leader"
            /\ StatusOf(TransferTargetCheck(m.id, leaderId)) = 400
  /\ \A id \in MemberIds :
       MemberById(id) = {} =>
         /\ TransferTargetCheck(id, leaderId) = "player_not_found"
         /\ StatusOf(TransferTargetCheck(id, leaderId)) = 404
  /\ \A u \in Players :
       u # leaderId => (LeaderCheck(u) = "not_leader" /\ StartRoundCheck(u) = "not_leader")

C26_TransferMovesLeader ==
  /\ []C26_Answer
  /\ [][/\ \A p \in Procs :
             /\ (pc[p] = "transfer_target" /\ pc'[p] # "transfer_target") =>
                  /\ db' = db
                  /\ pc'[p] = "transfer_update" =>
                       \E m \in MemberById(req[p].target) :
                         /\ m.userId # req[p].leaderRead
                         /\ req'[p].targetUserId = m.userId
                         /\ req[p].leaderRead = req[p].actor
             /\ (pc[p] = "transfer_update" /\ pc'[p] = "emit") =>
                  /\ leaderId' = req[p].targetUserId
                  /\ leaderId' # req[p].actor
                  /\ UNCHANGED <<roomStatus, members, nextMemberId, rounds, entries>>
        /\ leaderId' # leaderId =>
             \E p \in Procs : pc[p] = "transfer_update" /\ pc'[p] = "emit"]_vars

\* the leadership has gone to the second member and come back
C26_Witness ==
  \E p \in Procs :
    /\ pc[p] = "transfer_update"
    /\ leaderId # FirstUser
    /\ req[p].actor = leaderId
    /\ req[p].targetUserId = FirstUser

\* C27: over calls 2..13, results 0..13 and both blind flags the points are
\* minus ten times the call when the result is below the call, blind or not,
\* and otherwise nine times the call plus the result, twice that when blind;
\* the five worked examples have the stated values; and the close of a round
\* stores for its entry the value so computed from the entry's call, verified
\* result and blind flag.
C27_Score(c, v, b) ==
  IF v < c THEN 0 - 10 * c
  ELSE IF b THEN 2 * (9 * c + v) ELSE 9 * c + v

C27_Function ==
  /\ \A c \in 2..13, v \in 0..13, b \in BOOLEAN :
       computeRoundPoints(c, v, b) = C27_Score(c, v, b)
  /\ computeRoundPoints(4, 6, FALSE) = 42
  /\ computeRoundPoints(4, 3, FALSE) = -40
  /\ computeRoundPoints(5, 5, TRUE) = 100
  /\ computeRoundPoints(5, 6, TRUE) = 102
  /\ computeRoundPoints(5, 4, TRUE) = -50

C27_ScoringFunction ==
  /\ []C27_Function
  /\ [][\A p \in Procs :
          CloseCommits(p) =>
            \A e \in entries :
              e.roundId = req[p].roundId =>
                \E f \in entries' :
                  /\ SameEntry(e, f)
                  /\ f.pointsAwarded =
                       Some(C27_Score(e.calledHands, Val(e.verifiedWinningHands),
                                      e.blindCall))]_vars

\* a failed blind call of five with four hands won is closed at -50
C27_Witness ==
  \E e \in entries :
    /\ e.blindCall
    /\ e.calledHands = 5
    /\ e.verifiedWinningHands = Some(4)
    /\ e.pointsAwarded = Some(-50)
    /\ rounds[e.roundId].state = "CLOSED"

\* C28: the database changes only in a step that takes the request making the
\* change to its awaited broadcast; a request that leaves its handler from
\* anywhere else has changed nothing; the broadcast reads the database as it is
\* after that commit and writes nothing; and every request that has committed
\* goes on to broadcast.
C28_CommitThenBroadcast ==
  /\ db' # db => \E p \in Procs : pc[p] \notin {"idle", "emit"} /\ pc'[p] = "emit"
  /\ \A p \in Procs :
       /\ (pc[p] \notin {"idle", "emit"} /\ pc'[p] = "idle") => db' = db
       /\ (pc[p] # "emit" /\ pc'[p] = "emit") => pc[p] # "idle"
       /\ (pc[p] = "emit" /\ pc'[p] # "emit") => (pc'[p] = "idle" /\ db' = db)

C29_BroadcastFailureHidden ==
  [][\A p \in Procs :
       (pc[p] = "emit" /\ pc'[p] # "emit") => (pc'[p] # "error" /\ db' = db)]_vars

\* C30: every entry of an IN_PROGRESS round has no points and every entry of a
\* CLOSED round has points; a close writes the points of entries that have
\* none; and points once written are never changed by any step.
C30_PointsByState ==
  \A e \in entries :
    /\ rounds[e.roundId].state = "IN_PROGRESS" => IsNull(e.pointsAwarded)
    /\ rounds[e.roundId].state = "CLOSED" => ~IsNull(e.pointsAwarded)

C30_PointsSetOnce ==
  /\ []C30_PointsByState
  /\ [][/\ \A p \in Procs :
             CloseCommits(p) =>
               \A e \in entries : e.roundId = req[p].roundId => IsNull(e.pointsAwarded)
        /\ \A e \in entries, f \in entries' :
             (SameEntry(e, f) /\ ~IsNull(e.pointsAwarded)) =>
               f.pointsAwarded = e.pointsAwarded]_vars

\* C31: a call outside 2..13 and a report or verify outside 0..13 is answered
\* 400 for every sender, round and state; no step stores a called value
\* outside 2..13 or a reported or verified value outside 0..13; and in every
\* state every locked entry has its call in 2..13 and every reported or
\* verified value is in 0..13.
C31_Answer ==
  \A u \in Players, r \in RoundIds :
    /\ \A c \in {0, 1, 14, 15}, b \in BlindChoices, l \in BOOLEAN :
         /\ CallCheck(u, r, c, b, l) = "invalid_payload"
         /\ StatusOf(CallCheck(u, r, c, b, l)) = 400
    /\ \A w \in {-2, -1, 14, 15} :
         /\ ReportCheck(u, r, w) = "invalid_payload"
         /\ VerifyRoundCheck(u, r, Some(w)) = "invalid_payload"
         /\ StatusOf(ReportCheck(u, r, w)) = 400

C31_Stored ==
  \A e \in entries :
    /\ e.lockedAt # 0 => e.calledHands \in 2..13
    /\ ~IsNull(e.reportedWinningHands) => Val(e.reportedWinningHands) \in 0..13
    /\ ~IsNull(e.verifiedWinningHands) => Val(e.verifiedWinningHands) \in 0..13

C32_Answer ==
  \A u \in Players, r \in RoundIds, w \in 0..13 :
    (/\ RoundExists(r)
     /\ rounds[r].state = "IN_PROGRESS"
     /\ rounds[r].phase = "ENDED"
     /\ EntryOfUser(r, u) # {}) => ReportCheck(u, r, w) = "ok"

C32_ReportOverwrites ==
  /\ []C32_Answer
  /\ [][\A p \in Procs :
          (pc[p] = "report_write" /\ pc'[p] = "emit") =>
            /\ \E e \in entries :
                 /\ e.roundId = req[p].roundId
                 /\ e.memberId = req[p].memberId
                 /\ entries' = (entries \ {e}) \cup
                      {[e EXCEPT !.reportedWinningHands = Some(req[p].winningHands)]}
            /\ UNCHANGED <<leaderId, roomStatus, members, nextMemberId, rounds>>]_vars

\* a second report, with another value, about to be written over the first
C32_Witness ==
  \E p \in Procs :
    /\ pc[p] = "report_write"
    /\ \E e \in entries :
         /\ e.roundId = req[p].roundId
         /\ e.memberId = req[p].memberId
         /\ ~IsNull(e.reportedWinningHands)
         /\ e.reportedWinningHands # Some(req[p].winningHands)
         /\ IsNull(e.verifiedWinningHands)
         /\ rounds[e.roundId].phase = "ENDED"

\* C33: a round's start, end and close timestamps and an entry's lock
\* timestamp, once set, are not written again by any step, and a locked entry
\* stays locked.
C33_TimestampsSetOnce ==
  [][/\ \A r \in 1..Len(rounds) :
          /\ rounds[r].startedAt # 0 => rounds'[r].startedAt = rounds[r].startedAt
          /\ rounds[r].endedAt # 0 => rounds'[r].endedAt = rounds[r].endedAt
          /\ rounds[r].closedAt # 0 => rounds'[r].closedAt = rounds[r].closedAt
     /\ \A e \in entries, f \in entries' :
          (SameEntry(e, f) /\ e.lockedAt # 0) => f.lockedAt = e.lockedAt]_vars

\* C34: while a round is CLOSED, no call, startPlay, endPlay, report, verify or
\* close on it is accepted, whoever sends it and whatever its body, and the
\* ones that pass the checks made before the round's state is looked at are
\* answered 400 "round closed"; and no request gets past its first read on a
\* round that is CLOSED at that read.
C34_Answer ==
  \A r \in 1..Len(rounds) :
    rounds[r].state = "CLOSED" =>
      \A u \in Players :
        /\ \A c \in 0..14, b \in BlindChoices, l \in BOOLEAN :
             /\ CallCheck(u, r, c, b, l) # "ok"
             /\ (roundCallSchema(c) /\ EntryOfUser(r, u) # {}) =>
                  CallCheck(u, r, c, b, l) = "round_closed"
        /\ \A w \in -1..14 :
             /\ ReportCheck(u, r, w) # "ok"
             /\ (reportSchema(w) /\ EntryOfUser(r, u) # {}) =>
                  ReportCheck(u, r, w) = "round_closed"
        /\ \A v \in VerifyChoices :
             /\ VerifyRoundCheck(u, r, v) # "ok"
             /\ (verifySchema(v) /\ u = leaderId) =>
                  VerifyRoundCheck(u, r, v) = "round_closed"
        /\ StartPlayCheck(u, r) # "ok"
        /\ EndPlayCheck(u, r) # "ok"
        /\ CloseCheck(u, r) # "ok"
        /\ u = leaderId =>
             /\ StartPlayCheck(u, r) = "round_closed"
             /\ EndPlayCheck(u, r) = "round_closed"
             /\ CloseCheck(u, r) = "round_closed"
        /\ StatusOf("round_closed") = 400

C34_ClosedIsTerminal ==
  /\ []C34_Answer
  /\ [][\A p \in Procs :
          (/\ pc[p] = "idle"
           /\ pc'[p] \in {"call_write", "startplay_write", "endplay_write",
                          "report_write", "verify_entry", "close_tx"}) =>
            /\ rounds[req'[p].roundId].state # "CLOSED"
            /\ db' = db]_vars

\* a closed round with both request slots free for requests on it
C34_Witness ==
  /\ \E r \in 1..Len(rounds) : rounds[r].state = "CLOSED"
  /\ \A p \in Procs : pc[p] = "idle"
  /\ Cardinality(members) = NPlayers

\* C36: in every state the room's status is IN_PROGRESS when the room has a
\* round whose state is IN_PROGRESS and LOBBY when it has none, and it is
\* never FINISHED.
C36_StatusFollowsRounds ==
  /\ roomStatus \in {"LOBBY", "IN_PROGRESS"}
  /\ roomStatus = "IN_PROGRESS" <=> InProgressRounds # {}

\* C37: in every state every entry of a CLOSED round has a verified value and
\* carries the points that computeRoundPoints gives for the called value, the
\* verified value and the blind flag stored in that entry.
C37_ClosedPointsMatchEntry ==
  \A e \in entries :
    rounds[e.roundId].state = "CLOSED" =>
      /\ ~IsNull(e.verifiedWinningHands)
      /\ e.pointsAwarded =
           Some(computeRoundPoints(e.calledHands, Val(e.verifiedWinningHands), e.blindCall))

\* C38: every write of a leader-only request (startRound, startPlay, endPlay,
\* verify, close, kick, transfer) is made for a sender who is the room's
\* leader in the state the write is made in; and the verifier recorded in an
\* entry is the leader at the time of that write.
C38_WriterIsLeader ==
  [][/\ \A p \in Procs :
          (pc[p] # "idle" /\ pc[p] # "emit" /\ pc'[p] = "emit"
             /\ req[p].op \in LeaderOps) => req[p].actor = leaderId
     /\ \A e \in entries, f \in entries' :
          (SameEntry(e, f) /\ f.verifiedById # e.verifiedById) =>
            f.verifiedById = Some(leaderId)]_vars

\* C39: when suspended handlers are resumed and the players and the leader
\* keep sending the requests that are theirs to send, every state in which the
\* room has a round leads to a state in which that round is CLOSED and the
\* room is in the LOBBY.
C39_RoundCompletes ==
  (Len(rounds) >= 1) ~>
    (Len(rounds) >= 1 /\ rounds[1].state = "CLOSED" /\ roomStatus = "LOBBY")

\* the round of a room of all the players, ended, with an entry still to be
\* verified
C39_Witness ==
  /\ Len(rounds) >= 1
  /\ rounds[1].state = "IN_PROGRESS"
  /\ rounds[1].phase = "ENDED"
  /\ Cardinality(EntriesOfRound(1)) = NPlayers
  /\ \E e \in EntriesOfRound(1) : IsNull(e.verifiedWinningHands)

\* C35: in the snapshot of every state, and in every snapshot a socket was
\* sent, the leaderboard holds each member of the snapshot's member list once
\* and nothing else, no member stands before one with a larger total, and
\* members with the same total stand in the order of the member list.
C35_Position(list, m) == CHOOSE i \in 1..Len(list) : list[i] = m

C35_Ordered(snapshot) ==
  LET board == snapshot.leaderboard
      list == snapshot.members
  IN /\ Len(board) = Len(list)
     /\ \A i \in 1..Len(list) : \E j \in 1..Len(board) : board[j] = list[i]
     /\ \A i, j \in 1..Len(board) :
          i < j =>
            /\ board[i].totalPoints >= board[j].totalPoints
            /\ board[i].totalPoints = board[j].totalPoints =>
                 C35_Position(list, board[i]) < C35_Position(list, board[j])

C35_Leaderboard ==
  /\ C35_Ordered(getRoomSnapshot)
  /\ \A u \in Users : ~IsNull(sockets[u].got) => C35_Ordered(Val(sockets[u].got))

\* a socket holds a snapshot whose leaderboard is not in the order of the
\* member list and has two members with the same total
C35_Witness ==
  \E u \in Users :
    /\ ~IsNull(sockets[u].got)
    /\ Val(sockets[u].got).leaderboard # Val(sockets[u].got).members
    /\ \E i, j \in 1..Len(Val(sockets[u].got).leaderboard) :
         /\ i < j
         /\ Val(sockets[u].got).leaderboard[i].totalPoints =
              Val(sockets[u].got).leaderboard[j].totalPoints

\* C40: a user who is no member of the room cannot subscribe; a socket joins
\* the room's channel only for a member; and every snapshot is sent only to
\* sockets of users who are members of the room when it is sent.
C40_Answer == \A u \in Users : MemberOfUser(u) = {} => SubscribeCheck(u) = "not_member"

C40_OnlyMembersReceive ==
  /\ []C40_Answer
  /\ [][/\ \A u \in Users :
             (~sockets[u].joined /\ sockets'[u].joined) => MemberOfUser(u) # {}
        /\ \A p \in Procs :
             (pc[p] = "emit" /\ pc'[p] = "idle") =>
               \A u \in Users : sockets[u].joined => MemberOfUser(u) # {}]_vars
====
